---- MODULE Spec2Model ----
(***************************************************************************)
(* Model of the conversion job orchestrator of app.py: the task registry   *)
(* (TaskManager), the job records (ConversionTask), the background job     *)
(* runner (process_conversion) and the request handlers upload_file,       *)
(* status, result, download_file and cleanup.                              *)
(*                                                                         *)
(* Every handler runs in its own thread (the Flask development server is   *)
(* threaded, the runner is a threading.Thread), so a handler is a sequence *)
(* of steps, one per access to shared state (the registry dict, a record's *)
(* attributes, the filesystem); steps of different threads interleave.     *)
(*                                                                         *)
(* Text is modelled as sequences of one-character strings where the code   *)
(* inspects characters (filenames); the user-facing messages, which the    *)
(* source writes in Russian, are transliterated to ASCII.                  *)
(***************************************************************************)
EXTENDS Integers, Sequences, FiniteSets, TLC

\* ------------------------------------------------------------------ bounds
\* Number of job tokens uuid4 can mint in a run (tokens are 1..MaxJobs).
MaxJobs == 2
\* Number of concurrently served request threads.
MaxReq == 2

\* Size of a run: the tokens minted plus the requests other than uploads
\* being served at one time never exceed it (one job under two concurrent
\* requests, or two jobs under one request at a time).
MaxLoad == 3

\* Length of the longest frame-rate string handed to _parse_fps.
MaxFpsLen == 4

Tokens == 1..MaxJobs
Reqs == 1..MaxReq

\* ------------------------------------------------------- optional values
\* Python's None and a present string value.
None == <<>>
Some(s) == <<s>>
\* Truthiness of an optional string, as in `x or default` (None and '' are falsy).
Truthy(o) == o # None /\ o[1] # ""
\* `a or b` on strings.
OrElse(s, d) == IF s # "" THEN s ELSE d

\* ---------------------------------------------------------------- messages
\* app.py:182
TimeoutMsg == "Prevysheno vremya ozhidaniya konvertatsii"
\* app.py:218
UnknownMsg == "Neizvestnaya oshibka konvertatsii"
\* app.py:154 and app.py:242
UnsupportedMsg == "Nepodderzhivaemyy format"
\* app.py:233 and app.py:239
NoFileMsg == "Fayl ne vybran"
\* app.py:245
BadExtMsg == "Nepodderzhivaemyy format fayla. Razreshennye formaty: MP4, AVI, MOV, MKV, WEBM"
\* app.py:284
TooLargeMsg == "Fayl slishkom bolshoy. Maksimalnyy razmer: 500 MB"
\* app.py:286: f'... {str(e)}', the text of the exception after the prefix.
UploadErrMsg(e) == "Oshibka zagruzki: " \o e
\* app.py:292, 313, 332, 349
TaskNotFoundMsg == "Zadacha ne naydena"
\* app.py:324 and app.py:337
FileNotFoundMsg == "Fayl ne nayden"
\* app.py:318
ConvErrMsg == "Oshibka konvertatsii"

\* ------------------------------------------------------ text as characters
Upper == <<"A","B","C","D","E","F","G","H","I","J","K","L","M",
           "N","O","P","Q","R","S","T","U","V","W","X","Y","Z">>
LowerAZ == <<"a","b","c","d","e","f","g","h","i","j","k","l","m",
             "n","o","p","q","r","s","t","u","v","w","x","y","z">>
Digits == {"0","1","2","3","4","5","6","7","8","9"}

\* str.lower() on one character.
LowerChar(c) ==
    IF \E i \in 1..26 : Upper[i] = c
    THEN LowerAZ[CHOOSE i \in 1..26 : Upper[i] = c]
    ELSE c

\* str.lower()
Lower(s) == [i \in 1..Len(s) |-> LowerChar(s[i])]

\* `c in s`
Contains(s, c) == \E i \in 1..Len(s) : s[i] = c

\* Index of the last occurrence of c in s (0 when there is none).
LastIndexOf(s, c) ==
    IF Contains(s, c)
    THEN CHOOSE i \in 1..Len(s) : s[i] = c /\ \A j \in (i+1)..Len(s) : s[j] # c
    ELSE 0

\* s.rsplit('.', 1): a list of one element when s holds no dot, else of two.
RSplitDot(s) ==
    IF Contains(s, ".")
    THEN << SubSeq(s, 1, LastIndexOf(s, ".") - 1),
            SubSeq(s, LastIndexOf(s, ".") + 1, Len(s)) >>
    ELSE << s >>

\* app.config['ALLOWED_EXTENSIONS']
ALLOWED_EXTENSIONS ==
    { <<"m","p","4">>, <<"a","v","i">>, <<"m","o","v">>,
      <<"m","k","v">>, <<"w","e","b","m">> }

\* C10 mutant: any name with a dot in it is allowed.
is_allowed_any_extension(filename) == Contains(filename, ".")

\* FileValidator.is_allowed
is_allowed(filename) ==
    /\ Contains(filename, ".")
    /\ Lower(RSplitDot(filename)[2]) \in ALLOWED_EXTENSIONS

\* The keys of VideoConverter.OUTPUT_FORMATS.
OUTPUT_FORMATS == { "mp4", "webm", "avi", "mkv" }

\* werkzeug's secure_filename on the characters the model uses: characters
\* that are not ASCII are dropped, path separators become spaces, runs of
\* whitespace become one "_" (none at the ends), every character outside
\* [A-Za-z0-9_.-] is dropped, and dots and underscores are stripped from
\* both ends.
IsAscii(c) == c # "zh"
SafeChar(c) ==
    \/ \E i \in 1..26 : Upper[i] = c \/ LowerAZ[i] = c
    \/ c \in Digits
    \/ c \in {"_", ".", "-"}

RECURSIVE DropNonAscii(_)
DropNonAscii(s) ==
    IF s = <<>> THEN <<>>
    ELSE (IF IsAscii(Head(s)) THEN <<Head(s)>> ELSE <<>>) \o DropNonAscii(Tail(s))

SepToSpace(s) == [i \in 1..Len(s) |-> IF s[i] = "/" THEN " " ELSE s[i]]

RECURSIVE LStrip(_, _)
LStrip(s, cs) ==
    IF s # <<>> /\ Head(s) \in cs THEN LStrip(Tail(s), cs) ELSE s

RECURSIVE RStrip(_, _)
RStrip(s, cs) ==
    IF s # <<>> /\ s[Len(s)] \in cs THEN RStrip(SubSeq(s, 1, Len(s) - 1), cs) ELSE s

Strip(s, cs) == RStrip(LStrip(s, cs), cs)

\* "_".join(s.split()) on a string stripped of whitespace at both ends.
RECURSIVE JoinWords(_)
JoinWords(s) ==
    IF s = <<>> THEN <<>>
    ELSE IF Head(s) = " "
         THEN <<"_">> \o JoinWords(LStrip(s, {" "}))
         ELSE <<Head(s)>> \o JoinWords(Tail(s))

RECURSIVE KeepSafe(_)
KeepSafe(s) ==
    IF s = <<>> THEN <<>>
    ELSE (IF SafeChar(Head(s)) THEN <<Head(s)>> ELSE <<>>) \o KeepSafe(Tail(s))

secure_filename(s) ==
    Strip(KeepSafe(JoinWords(Strip(SepToSpace(DropNonAscii(s)), {" "}))), {".", "_"})

\* ------------------------------------------------------------ environment
\* Diagnostic text the encoder can leave on stderr (subprocess.run's
\* rezultat.stderr), which convert returns as it is (line 180): the empty
\* text, a text of the encoder's own, and a text equal to the sentence
\* convert returns for a timeout (line 182).
Stderr == { "", "ffmpeg: error", TimeoutMsg }
\* str(e) of an OSError raised when the encoder cannot be launched.
LaunchMsgs == { "[Errno 2] No such file or directory: 'ffmpeg'" }
\* str(e) of a fault raised inside the job runner; an exception built
\* without arguments has the empty description.
FaultMsgs == { "", "fault" }

\* str(e) of the IndexError of line 250 (a list indexed past its end).
IndexErrorMsg == "list index out of range"
\* The request body against MAX_CONTENT_LENGTH (line 197): within the limit,
\* or over it. The framework raises RequestEntityTooLarge where the body is
\* first read: when request.files is parsed (line 232, before the try
\* block, so the exception leaves upload_file and the framework answers
\* 413), or, for a body read later, at a read inside the try block (answered
\* at lines 283-284).
BodyOutcomes == { "within", "at_parse", "in_try" }
\* The framework's answer to a RequestEntityTooLarge that leaves the handler.
Http413Msg == "413 Request Entity Too Large"
\* The ways fail.save (line 254) ends: the file stored, an OSError of the
\* disk with nothing written, or an OSError after part of the file was
\* written, which stays on disk under the new token's name.
SaveOutcomes == { "stored", "oserror", "partial" }
\* str(e) of that OSError.
SaveErrMsg == "[Errno 28] No space left on device"
\* str(e) of the RuntimeError of Thread.start (line 277) when the system
\* refuses a new thread.
StartErrMsg == "can't start new thread"

\* The outcomes of VideoConverter.convert as process_conversion sees them:
\* (uspekh, soobshchenie_ob_oshibke), or a fault escaping the call.
ConvertOutcomes ==
    [kind : {"exit0", "nonzero"}, msg : Stderr]
    \cup [kind : {"timeout"}, msg : {TimeoutMsg}]
    \cup [kind : {"fault"}, msg : FaultMsgs]

\* The uploads the model submits: whether the request has a 'file' part, the
\* part's filename and the form field 'format' ("absent": no such field).
\* One case per branch of upload_file: no file part, an empty filename, a
\* format outside the catalog (also a catalog name in upper case), no
\* extension, an extension outside the allow-list, an empty extension after
\* an allowed name, accepted names (upper-case extension and no format
\* field, a path with a space and two dots), and a name that passes the
\* validator and loses its stem in secure_filename.
Upload(hasFile, filename, fmt) == [hasFile |-> hasFile, filename |-> filename, fmt |-> fmt]
NoUpload == Upload(FALSE, <<>>, "none")
UploadInputs ==
    { Upload(FALSE, <<>>, "mp4"),
      Upload(TRUE, <<>>, "mp4"),
      Upload(TRUE, <<"a", ".", "m", "p", "4">>, "gif"),
      Upload(TRUE, <<"a", ".", "m", "p", "4">>, "MP4"),
      Upload(TRUE, <<"a">>, "mp4"),
      Upload(TRUE, <<"a", ".", "t", "x", "t">>, "webm"),
      Upload(TRUE, <<"m", "p", "4", ".">>, "avi"),
      Upload(TRUE, <<"a", ".", "M", "P", "4">>, "absent"),
      Upload(TRUE, <<"/", "a", " ", "b", ".", "a", "v", "i">>, "mkv"),
      Upload(TRUE, <<"zh", ".", "m", "o", "v">>, "mkv") }

\* request.form.get('format', 'mp4')
FormField(f) == IF f = "absent" THEN "mp4" ELSE f

\* Outcomes of the probe subprocess and of parsing its output
\* (VideoConverter.get_video_info).
ProbeOutcomes == { "parsed", "nonzero", "malformed", "timeout", "launch" }

\* get_video_info: a VideoInfo when the probe exits 0 and its output
\* parses, None otherwise (the handler swallows every exception).
get_video_info(outcome) == IF outcome = "parsed" THEN Some("VideoInfo") ELSE None

\* ------------------------------------------------------------------- state
VARIABLES
    tasks,      \* task_manager.tasks: the tokens that have a record in the registry
    status,     \* ConversionTask.status of the record object made for each token
    error,      \* ConversionTask.error of that object
    inFile,     \* os.path.exists(input_path) per token
    outFile,    \* os.path.exists(output_path) per token
    minted,     \* number of tokens uuid4 has produced for uploads that stored their file
    rn,         \* the job runner thread of each token
    rq,         \* the request threads
    resp,       \* the response the last step sent, NoResp when it sent none
    conv        \* the convert call that returned in the last step, NoConv when none did

vars == << tasks, status, error, inFile, outFile, minted, rn, rq, resp, conv >>

\* A request thread: the handler it runs, the token of the request, the step
\* it is at, and its locals: the status it has read (status), the upload it
\* handles and the probe's result video_informatsiya (upload_file).
IdleReq == [op |-> "none", tok |-> 0, pc |-> "idle", st |-> "", in |-> NoUpload, info |-> None]

\* A runner thread: the step it is at and its local soobshchenie_ob_oshibke
\* (at "check") or the text it hands to mark_error (at "err1" and "err2").
NoRunner == [pc |-> "none", msg |-> ""]

\* A response: the thread and handler that sent it, the token of the request
\* (0 for an upload that minted none), the upload's input and probe result,
\* the outcome `out` with its detail `a` and, for a status response, the
\* error field `e`.
NoResp == [r |-> 0, op |-> "none", tok |-> 0, in |-> NoUpload, info |-> None,
           out |-> "none", a |-> "", e |-> None]
Res(out, a, e) == [out |-> out, a |-> a, e |-> e]

\* A returned convert call: the token, the way the encoder run ended, the
\* message convert returned (str(e) for a fault) and whether the runner then
\* found its record in the registry.
NoConv == [t |-> 0, kind |-> "none", msg |-> "", found |-> FALSE]

Init ==
    /\ tasks = {}
    /\ status = [t \in Tokens |-> "none"]
    /\ error = [t \in Tokens |-> None]
    /\ inFile = [t \in Tokens |-> FALSE]
    /\ outFile = [t \in Tokens |-> FALSE]
    /\ minted = 0
    /\ rn = [t \in Tokens |-> NoRunner]
    /\ rq = [r \in Reqs |-> IdleReq]
    /\ resp = NoResp
    /\ conv = NoConv

\* The load of the run (see MaxLoad): the tokens minted and the requests in
\* service; an upload in service counts by the token it minted, so that two
\* uploads can be in service at one time.
Load == minted + Cardinality({ r \in Reqs : rq[r].pc # "idle" /\ rq[r].op # "upload" })

\* A new request is served by the first idle request thread.
Free(r) ==
    /\ rq[r].pc = "idle"
    /\ \A q \in Reqs : q < r => rq[q].pc # "idle"

\* The run has room for one more request thread.
Admits == Load < MaxLoad

\* A request can name token t: a token made by uuid4 (line 248) leaves the
\* server only in the answer to its upload (lines 279-281), so no request
\* names the token of an upload still to be answered, or of one answered
\* with an error after its token was made (no runner was started for it).
\* A token uuid4 has not made can be named: it is an unknown token.
Nameable(t) ==
    \/ t > minted
    \/ /\ rn[t].pc # "none"
       /\ \A r \in Reqs : ~(rq[r].op = "upload" /\ rq[r].tok = t)

\* The run has room for an upload: its request thread and the job it may
\* create.
AdmitsUpload == minted < MaxJobs /\ Load + 1 < MaxLoad

\* The thread ends an upload of input `in` with a response.
FinishUpload(r, t, in, res) ==
    /\ rq' = [rq EXCEPT ![r] = IdleReq]
    /\ resp' = [r |-> r, op |-> "upload", tok |-> t, in |-> in, info |-> rq[r].info,
                out |-> res.out, a |-> res.a, e |-> res.e]
    /\ conv' = NoConv

\* The thread ends its request with a response.
Finish(r, op, t, res) ==
    /\ rq' = [rq EXCEPT ![r] = IdleReq]
    /\ resp' = [r |-> r, op |-> op, tok |-> t, in |-> NoUpload, info |-> None,
                out |-> res.out, a |-> res.a, e |-> res.e]
    /\ conv' = NoConv

\* The thread moves to its next step.
Goto(r, op, t, pc, st) ==
    /\ rq' = [rq EXCEPT ![r] = [op |-> op, tok |-> t, pc |-> pc, st |-> st,
                                in |-> NoUpload, info |-> None]]
    /\ resp' = NoResp
    /\ conv' = NoConv

At(r, op, pc) == rq[r].op = op /\ rq[r].pc = pc

\* ------------------------------------------------------------ TaskManager
\* TaskManager.task_exists
task_exists(t) == t \in tasks

\* TaskManager.get_task: TRUE for a record, FALSE for None.
get_task(t) == t \in tasks

\* C12 mutant: deleting one record empties the registry.
delete_every_task(t) == tasks' = {}

\* TaskManager.delete_task, line 97: `if task_id in self.tasks`
delete_task_test(t) == t \in tasks

\* TaskManager.delete_task, line 98: `del self.tasks[task_id]` of a key that
\* is in the dict (for a key that is not, del raises a KeyError).
delete_task(t) == tasks' = tasks \ {t}

\* C18 mutant: the record is not in the registry when create_task returns.
create_task_deferred(t) == UNCHANGED << tasks, status, error >>

\* TaskManager.create_task with ConversionTask.__init__
create_task(t) ==
    /\ tasks' = tasks \cup {t}
    /\ status' = [status EXCEPT ![t] = "processing"]
    /\ error' = [error EXCEPT ![t] = None]

\* ----------------------------------------------------------------- upload
\* The reason upload_file rejects a request before its try block, "" if none.
UploadRejection(in) ==
    IF ~in.hasFile THEN NoFileMsg
    ELSE IF in.filename = <<>> THEN NoFileMsg
    ELSE IF FormField(in.fmt) \notin OUTPUT_FORMATS THEN UnsupportedMsg
    ELSE IF ~is_allowed(in.filename) THEN BadExtMsg
    ELSE ""

\* upload_file, line 250: rsplit('.', 1)[1] of the sanitised name raises an
\* IndexError when that name holds no dot.
ExtensionFault(in) == Len(RSplitDot(secure_filename(in.filename))) < 2

\* upload_file, lines 232-245: a request that fails validation.
UploadReject(r) ==
    /\ Free(r)
    /\ AdmitsUpload
    /\ \E in \in UploadInputs :
        /\ UploadRejection(in) # ""
        /\ FinishUpload(r, 0, in, Res("rejected", UploadRejection(in), None))
    /\ UNCHANGED << tasks, status, error, inFile, outFile, minted, rn >>

\* upload_file, line 232: the body is over MAX_CONTENT_LENGTH and parsing
\* request.files raises before any validation and before the try block; the
\* request is refused with nothing changed.
UploadTooLarge(r) ==
    /\ Free(r)
    /\ AdmitsUpload
    /\ \E in \in UploadInputs :
        FinishUpload(r, 0, in, Res("rejected", Http413Msg, None))
    /\ UNCHANGED << tasks, status, error, inFile, outFile, minted, rn >>

\* upload_file, lines 283-286: the answer to a fault raised in the try block
\* up to fail.save.
UploadFaultAnswer(in, body, save) ==
    IF ExtensionFault(in) THEN Res("upload_error", UploadErrMsg(IndexErrorMsg), None)
    ELSE IF body = "in_try" THEN Res("too_large", TooLargeMsg, None)
    ELSE Res("upload_error", UploadErrMsg(SaveErrMsg), None)

\* C1 mutant: the token of the latest job is handed out again.
RepeatedToken == IF minted = 0 THEN 1 ELSE minted

\* upload_file, line 248: str(uuid.uuid4()), a token no earlier job has.
NewToken == minted + 1

\* fail.save raised after it wrote part of the file (line 254).
LeavesPartialFile(in, body, save) ==
    ~ExtensionFault(in) /\ body = "within" /\ save = "partial"

\* upload_file, lines 247-254 and 283-286: the request passed validation and
\* the try block raises up to fail.save: the sanitised name has no dot left
\* (IndexError at line 250), the body is found over the limit, or fail.save
\* raises an OSError; a save that fails half-way leaves its partial file
\* under the token made at line 248, and nothing removes it.
UploadFault(r) ==
    /\ Free(r)
    /\ AdmitsUpload
    /\ \E in \in UploadInputs, body \in {"within", "in_try"}, save \in SaveOutcomes :
        /\ UploadRejection(in) = ""
        /\ ExtensionFault(in) \/ body = "in_try" \/ save # "stored"
        /\ FinishUpload(r, 0, in, UploadFaultAnswer(in, body, save))
        /\ IF LeavesPartialFile(in, body, save)
           THEN /\ minted' = minted + 1
                /\ inFile' = [inFile EXCEPT ![NewToken] = TRUE]
           ELSE UNCHANGED << minted, inFile >>
    /\ UNCHANGED << tasks, status, error, outFile, rn >>

\* upload_file, lines 232-254: the request passed validation, a fresh token
\* is made and the input file stored under it; no record exists yet.
UploadSave(r) ==
    /\ Free(r)
    /\ AdmitsUpload
    /\ \E in \in UploadInputs :
        /\ UploadRejection(in) = ""
        /\ ~ExtensionFault(in)
        /\ rq' = [rq EXCEPT ![r] = [op |-> "upload", tok |-> NewToken, pc |-> "u_probe",
                                    st |-> "", in |-> in, info |-> None]]
    /\ minted' = minted + 1
    /\ inFile' = [inFile EXCEPT ![NewToken] = TRUE]
    /\ resp' = NoResp
    /\ conv' = NoConv
    /\ UNCHANGED << tasks, status, error, outFile, rn >>

\* upload_file, line 256: get_video_info returns, after waiting for the probe
\* subprocess. The request thread keeps how the probe ended (st) and what it
\* returned (info); the upload's input is not read again.
UploadProbe(r) ==
    /\ At(r, "upload", "u_probe")
    /\ \E probe \in ProbeOutcomes :
        rq' = [rq EXCEPT ![r] = [@ EXCEPT !.pc = "u_create", !.st = probe, !.in = NoUpload,
                                           !.info = get_video_info(probe)]]
    /\ resp' = NoResp
    /\ conv' = NoConv
    /\ UNCHANGED << tasks, status, error, inFile, outFile, minted, rn >>

\* upload_file, lines 258-269: the record is created in the registry.
UploadCreate(r) ==
    /\ At(r, "upload", "u_create")
    /\ create_task(rq[r].tok)
    /\ rq' = [rq EXCEPT ![r] = [@ EXCEPT !.pc = "u_start"]]
    /\ resp' = NoResp
    /\ conv' = NoConv
    /\ UNCHANGED << inFile, outFile, minted, rn >>

\* upload_file, lines 271-277: the runner thread is started; the request is
\* not answered yet. The probe's result is not read again.
UploadStart(r) ==
    /\ At(r, "upload", "u_start")
    /\ rn' = [rn EXCEPT ![rq[r].tok] = [NoRunner EXCEPT !.pc = "start"]]
    /\ rq' = [rq EXCEPT ![r] = [IdleReq EXCEPT !.op = "upload", !.tok = rq[r].tok,
                                                !.pc = "u_answer"]]
    /\ resp' = NoResp
    /\ conv' = NoConv
    /\ UNCHANGED << tasks, status, error, inFile, outFile, minted >>

\* upload_file, lines 277 and 285-286: potok.start() raises; the request is
\* answered with the error, the record and the stored file stay and no
\* runner exists.
UploadStartFault(r) ==
    /\ At(r, "upload", "u_start")
    /\ FinishUpload(r, rq[r].tok, rq[r].in, Res("upload_error", UploadErrMsg(StartErrMsg), None))
    /\ UNCHANGED << tasks, status, error, inFile, outFile, minted, rn >>

\* upload_file, lines 279-281: the token goes to the session and the request
\* is answered with it.
UploadAnswer(r) ==
    /\ At(r, "upload", "u_answer")
    /\ FinishUpload(r, rq[r].tok, rq[r].in, Res("accepted", "", None))
    /\ UNCHANGED << tasks, status, error, inFile, outFile, minted, rn >>

\* The steps of an upload in service.
UploadStep(r) ==
    \/ UploadProbe(r)
    \/ UploadCreate(r)
    \/ UploadStart(r)
    \/ UploadStartFault(r)
    \/ UploadAnswer(r)

\* -------------------------------------------------------------- job runner
\* The runner thread of token t is at step pc.
RunnerAt(t, pc) == rn[t].pc = pc

\* C4 mutant: every encoder run that ends on its own counts as a success.
uspekhOfAnyExit(kind) == kind \in {"exit0", "nonzero"}

\* uspekh of VideoConverter.convert: rezultat.returncode == 0.
uspekh(kind) == kind = "exit0"

\* C3 mutant: the job completes on the encoder's word alone.
CompletesUnchecked(usp, exists) == usp

\* process_conversion, line 215: the condition under which the job completes.
Completes(usp, exists) == usp /\ exists

\* process_conversion, line 218: the text handed to mark_error.
ErrorText(msg) == OrElse(msg, UnknownMsg)

\* process_conversion, line 222: the text handed to mark_error for a fault.
FaultText(msg) == msg

\* ConversionTask.mark_completed
mark_completed(t) == status' = [status EXCEPT ![t] = "completed"]

\* ConversionTask.mark_error, line 56
mark_error_status(t) == status' = [status EXCEPT ![t] = "error"]

\* ConversionTask.mark_error, line 57
mark_error_message(t, msg) == error' = [error EXCEPT ![t] = Some(msg)]

\* C9 mutant: the runner goes on without looking whether it found a record.
AfterLookupUnguarded(found, kind) ==
    IF kind = "fault" THEN "err1"
    ELSE IF uspekh(kind) THEN "check"
    ELSE "err1"

\* process_conversion, lines 213-215 and 220-221: the step that follows the
\* lookup of the record. Without a record the runner ends; a fault goes to
\* mark_error; a failed run goes to mark_error too (line 215 then reads no
\* file); a successful run goes on to look for the output file.
AfterLookup(found, kind) ==
    IF ~found THEN "done"
    ELSE IF kind = "fault" THEN "err1"
    ELSE IF uspekh(kind) THEN "check"
    ELSE "err1"

\* The local message after the lookup.
MsgAfterLookup(found, kind, msg) ==
    IF ~found THEN ""
    ELSE IF kind = "fault" THEN FaultText(msg)
    ELSE IF uspekh(kind) THEN msg
    ELSE ErrorText(msg)

\* process_conversion, lines 211-214 and 219-221: convert returns (uspekh,
\* message) or a fault escapes it, and the runner looks its record up. The
\* return changes nothing another thread reads, so it is one step with the
\* lookup.
Returned(t, kind, msg) ==
    /\ rn' = [rn EXCEPT ![t] = [pc |-> AfterLookup(get_task(t), kind),
                                msg |-> MsgAfterLookup(get_task(t), kind, msg)]]
    /\ conv' = [t |-> t, kind |-> kind, msg |-> msg, found |-> get_task(t)]
    /\ resp' = NoResp
    /\ UNCHANGED << tasks, status, error, inFile, outFile, minted, rq >>

\* VideoConverter.convert, lines 174-179: the encoder process is started.
ConvertLaunch(t) ==
    /\ RunnerAt(t, "start")
    /\ rn' = [rn EXCEPT ![t].pc = "run"]
    /\ resp' = NoResp
    /\ conv' = NoConv
    /\ UNCHANGED << tasks, status, error, inFile, outFile, minted, rq >>

\* VideoConverter.convert, lines 183-184: the encoder cannot be started and
\* convert returns (False, str(e)).
ConvertLaunchFail(t) ==
    /\ RunnerAt(t, "start")
    /\ \E m \in LaunchMsgs : Returned(t, "launch", m)

\* The running encoder creates the file at the output path (ffmpeg -y).
TranscoderWrite(t) ==
    /\ RunnerAt(t, "run")
    /\ ~outFile[t]
    /\ outFile' = [outFile EXCEPT ![t] = TRUE]
    /\ resp' = NoResp
    /\ conv' = NoConv
    /\ UNCHANGED << tasks, status, error, inFile, minted, rn, rq >>

\* VideoConverter.convert, lines 180-182: the encoder exits or is killed at
\* the timeout; or a fault escapes the call.
ConvertReturn(t) ==
    /\ RunnerAt(t, "run")
    /\ \E oc \in ConvertOutcomes : Returned(t, oc.kind, oc.msg)

\* process_conversion, line 215: os.path.exists(output_path) after uspekh.
RunnerCheck(t) ==
    /\ RunnerAt(t, "check")
    /\ rn' = [rn EXCEPT ![t] = IF Completes(TRUE, outFile[t])
                               THEN [pc |-> "ok", msg |-> ""]
                               ELSE [pc |-> "err1", msg |-> ErrorText(rn[t].msg)]]
    /\ resp' = NoResp
    /\ conv' = NoConv
    /\ UNCHANGED << tasks, status, error, inFile, outFile, minted, rq >>

\* process_conversion, line 216: zadacha.mark_completed()
RunnerMarkCompleted(t) ==
    /\ RunnerAt(t, "ok")
    /\ mark_completed(t)
    /\ rn' = [rn EXCEPT ![t].pc = "done"]
    /\ resp' = NoResp
    /\ conv' = NoConv
    /\ UNCHANGED << tasks, error, inFile, outFile, minted, rq >>

\* process_conversion, lines 218 and 222, first assignment of mark_error.
RunnerMarkErrorStatus(t) ==
    /\ RunnerAt(t, "err1")
    /\ mark_error_status(t)
    /\ rn' = [rn EXCEPT ![t].pc = "err2"]
    /\ resp' = NoResp
    /\ conv' = NoConv
    /\ UNCHANGED << tasks, error, inFile, outFile, minted, rq >>

\* Second assignment of mark_error; the runner thread ends.
RunnerMarkErrorMessage(t) ==
    /\ RunnerAt(t, "err2")
    /\ mark_error_message(t, rn[t].msg)
    /\ rn' = [rn EXCEPT ![t] = [pc |-> "done", msg |-> ""]]
    /\ resp' = NoResp
    /\ conv' = NoConv
    /\ UNCHANGED << tasks, status, inFile, outFile, minted, rq >>

\* ----------------------------------------------------------------- status
\* status, lines 300-301: task_exists
StatusExists(r, t) ==
    /\ Free(r)
    /\ Admits
    /\ Nameable(t)
    /\ IF task_exists(t)
       THEN Goto(r, "status", t, "s_get", "")
       ELSE Finish(r, "status", t, Res("not_found", "", None))
    /\ UNCHANGED << tasks, status, error, inFile, outFile, minted, rn >>

\* status, line 303: get_task; reading an attribute of None is an
\* AttributeError no handler catches.
StatusGet(r) ==
    /\ At(r, "status", "s_get")
    /\ IF get_task(rq[r].tok)
       THEN Goto(r, "status", rq[r].tok, "s_status", "")
       ELSE Finish(r, "status", rq[r].tok, Res("fault", "AttributeError", None))
    /\ UNCHANGED << tasks, status, error, inFile, outFile, minted, rn >>

\* status, line 305: zadacha.status
StatusReadStatus(r) ==
    /\ At(r, "status", "s_status")
    /\ Goto(r, "status", rq[r].tok, "s_error", status[rq[r].tok])
    /\ UNCHANGED << tasks, status, error, inFile, outFile, minted, rn >>

\* status, line 306: zadacha.error, and the response
StatusReadError(r) ==
    /\ At(r, "status", "s_error")
    /\ Finish(r, "status", rq[r].tok, Res("ok", rq[r].st, error[rq[r].tok]))
    /\ UNCHANGED << tasks, status, error, inFile, outFile, minted, rn >>

\* ----------------------------------------------------------------- result
\* result, lines 312-313
ResultExists(r, t) ==
    /\ Free(r)
    /\ Admits
    /\ Nameable(t)
    /\ IF task_exists(t)
       THEN Goto(r, "result", t, "r_get", "")
       ELSE Finish(r, "result", t, Res("redirect_error", TaskNotFoundMsg, None))
    /\ UNCHANGED << tasks, status, error, inFile, outFile, minted, rn >>

\* result, line 315
ResultGet(r) ==
    /\ At(r, "result", "r_get")
    /\ IF get_task(rq[r].tok)
       THEN Goto(r, "result", rq[r].tok, "r_status1", "")
       ELSE Finish(r, "result", rq[r].tok, Res("fault", "AttributeError", None))
    /\ UNCHANGED << tasks, status, error, inFile, outFile, minted, rn >>

\* result, line 317: zadacha.status == 'error'
ResultStatus1(r) ==
    /\ At(r, "result", "r_status1")
    /\ Goto(r, "result", rq[r].tok,
            IF status[rq[r].tok] = "error" THEN "r_error" ELSE "r_status2", "")
    /\ UNCHANGED << tasks, status, error, inFile, outFile, minted, rn >>

\* result, line 318: zadacha.error or the default text
ResultError(r) ==
    /\ At(r, "result", "r_error")
    /\ Finish(r, "result", rq[r].tok,
              Res("redirect_error",
                  IF Truthy(error[rq[r].tok]) THEN error[rq[r].tok][1] ELSE ConvErrMsg,
                  None))
    /\ UNCHANGED << tasks, status, error, inFile, outFile, minted, rn >>

\* result, lines 320-321: zadacha.status != 'completed'
ResultStatus2(r) ==
    /\ At(r, "result", "r_status2")
    /\ IF status[rq[r].tok] # "completed"
       THEN Finish(r, "result", rq[r].tok, Res("redirect_processing", "", None))
       ELSE Goto(r, "result", rq[r].tok, "r_file", "")
    /\ UNCHANGED << tasks, status, error, inFile, outFile, minted, rn >>

\* result, lines 323-326: the result page is rendered when the output exists
ResultFile(r) ==
    /\ At(r, "result", "r_file")
    /\ IF outFile[rq[r].tok]
       THEN Finish(r, "result", rq[r].tok, Res("result_page", "", None))
       ELSE Finish(r, "result", rq[r].tok, Res("redirect_error", FileNotFoundMsg, None))
    /\ UNCHANGED << tasks, status, error, inFile, outFile, minted, rn >>

\* --------------------------------------------------------------- download
\* download_file, lines 331-332
DownloadExists(r, t) ==
    /\ Free(r)
    /\ Admits
    /\ Nameable(t)
    /\ IF task_exists(t)
       THEN Goto(r, "download", t, "d_get", "")
       ELSE Finish(r, "download", t, Res("redirect_error", TaskNotFoundMsg, None))
    /\ UNCHANGED << tasks, status, error, inFile, outFile, minted, rn >>

\* download_file, line 334
DownloadGet(r) ==
    /\ At(r, "download", "d_get")
    /\ IF get_task(rq[r].tok)
       THEN Goto(r, "download", rq[r].tok, "d_file", "")
       ELSE Finish(r, "download", rq[r].tok, Res("fault", "AttributeError", None))
    /\ UNCHANGED << tasks, status, error, inFile, outFile, minted, rn >>

\* download_file, lines 336-337
DownloadFile(r) ==
    /\ At(r, "download", "d_file")
    /\ IF outFile[rq[r].tok]
       THEN Goto(r, "download", rq[r].tok, "d_send", "")
       ELSE Finish(r, "download", rq[r].tok, Res("redirect_error", FileNotFoundMsg, None))
    /\ UNCHANGED << tasks, status, error, inFile, outFile, minted, rn >>

\* download_file, lines 339-343: send_file opens the output path
DownloadSend(r) ==
    /\ At(r, "download", "d_send")
    /\ IF outFile[rq[r].tok]
       THEN Finish(r, "download", rq[r].tok, Res("sent", status[rq[r].tok], None))
       ELSE Finish(r, "download", rq[r].tok, Res("fault", "FileNotFoundError", None))
    /\ UNCHANGED << tasks, status, error, inFile, outFile, minted, rn >>

\* ---------------------------------------------------------------- cleanup
\* cleanup, lines 348-349
CleanupExists(r, t) ==
    /\ Free(r)
    /\ Admits
    /\ Nameable(t)
    /\ IF task_exists(t)
       THEN Goto(r, "cleanup", t, "c_get", "")
       ELSE Finish(r, "cleanup", t, Res("not_found", TaskNotFoundMsg, None))
    /\ UNCHANGED << tasks, status, error, inFile, outFile, minted, rn >>

\* cleanup, lines 351-354: get_task; zadacha.input_path on None raises an
\* AttributeError inside the try block, answered as the 500 response.
CleanupGet(r) ==
    /\ At(r, "cleanup", "c_get")
    /\ IF get_task(rq[r].tok)
       THEN Goto(r, "cleanup", rq[r].tok, "c_in", "")
       ELSE Finish(r, "cleanup", rq[r].tok, Res("error500", "AttributeError", None))
    /\ UNCHANGED << tasks, status, error, inFile, outFile, minted, rn >>

\* cleanup, line 354: os.path.exists(zadacha.input_path)
CleanupExistsInput(r) ==
    /\ At(r, "cleanup", "c_in")
    /\ Goto(r, "cleanup", rq[r].tok, IF inFile[rq[r].tok] THEN "c_rm_in" ELSE "c_out", "")
    /\ UNCHANGED << tasks, status, error, inFile, outFile, minted, rn >>

\* os.remove(path) on a file that exists (TRUE) or not: the response it ends
\* the request with, "" when the file was removed. The operating system may
\* refuse to remove an existing file (removed = FALSE).
RemoveError(exists, removed) ==
    IF ~exists THEN "FileNotFoundError"
    ELSE IF ~removed THEN "OSError"
    ELSE ""

\* cleanup, line 355: os.remove(zadacha.input_path)
CleanupRemoveInput(r) ==
    /\ At(r, "cleanup", "c_rm_in")
    /\ \E removed \in BOOLEAN :
        LET err == RemoveError(inFile[rq[r].tok], removed) IN
        IF err = ""
        THEN /\ inFile' = [inFile EXCEPT ![rq[r].tok] = FALSE]
             /\ Goto(r, "cleanup", rq[r].tok, "c_out", "")
        ELSE /\ Finish(r, "cleanup", rq[r].tok, Res("error500", err, None))
             /\ UNCHANGED inFile
    /\ UNCHANGED << tasks, status, error, outFile, minted, rn >>

\* cleanup, line 357: os.path.exists(zadacha.output_path)
CleanupExistsOutput(r) ==
    /\ At(r, "cleanup", "c_out")
    /\ Goto(r, "cleanup", rq[r].tok, IF outFile[rq[r].tok] THEN "c_rm_out" ELSE "c_del", "")
    /\ UNCHANGED << tasks, status, error, inFile, outFile, minted, rn >>

\* cleanup, line 358: os.remove(zadacha.output_path)
CleanupRemoveOutput(r) ==
    /\ At(r, "cleanup", "c_rm_out")
    /\ \E removed \in BOOLEAN :
        LET err == RemoveError(outFile[rq[r].tok], removed) IN
        IF err = ""
        THEN /\ outFile' = [outFile EXCEPT ![rq[r].tok] = FALSE]
             /\ Goto(r, "cleanup", rq[r].tok, "c_del", "")
        ELSE /\ Finish(r, "cleanup", rq[r].tok, Res("error500", err, None))
             /\ UNCHANGED outFile
    /\ UNCHANGED << tasks, status, error, inFile, minted, rn >>

\* cleanup, line 360 with delete_task's line 97: the test of the key; when
\* the key is not there delete_task returns and cleanup answers success
\* (line 362).
CleanupDeleteTest(r) ==
    /\ At(r, "cleanup", "c_del")
    /\ IF delete_task_test(rq[r].tok)
       THEN Goto(r, "cleanup", rq[r].tok, "c_del2", "")
       ELSE Finish(r, "cleanup", rq[r].tok, Res("success", "", None))
    /\ UNCHANGED << tasks, status, error, inFile, outFile, minted, rn >>

\* cleanup, lines 360-364 with delete_task's line 98: the deletion and the
\* success response; when another thread deleted the key after the test,
\* del raises a KeyError, answered as the 500 response (lines 363-364).
CleanupDelete(r) ==
    /\ At(r, "cleanup", "c_del2")
    /\ IF rq[r].tok \in tasks
       THEN /\ delete_task(rq[r].tok)
            /\ Finish(r, "cleanup", rq[r].tok, Res("success", "", None))
       ELSE /\ UNCHANGED tasks
            /\ Finish(r, "cleanup", rq[r].tok, Res("error500", "KeyError", None))
    /\ UNCHANGED << status, error, inFile, outFile, minted, rn >>

\* ----------------------------------------------------------- direct calls
\* The functions of VideoConverter called on their own, with arguments the
\* handlers never pass; resp holds the call made and what it returned.

\* VideoConverter.OUTPUT_FORMATS: the settings of each format.
FormatSettings ==
    [f \in OUTPUT_FORMATS |->
        CASE f = "mp4" -> [ext |-> "mp4", codec |-> "libx264", audio |-> "aac"]
          [] f = "webm" -> [ext |-> "webm", codec |-> "libvpx-vp9", audio |-> "libopus"]
          [] f = "avi" -> [ext |-> "avi", codec |-> "libx264", audio |-> "mp3"]
          [] f = "mkv" -> [ext |-> "mkv", codec |-> "libx264", audio |-> "aac"]]

\* The format identifiers convert is called with.
FormatIds == OUTPUT_FORMATS \cup { "", "gif", "mov", "MP4", "Webm" }

\* VideoConverter.convert, lines 157-171: the command line for a format of
\* the catalog.
komanda(fmt) ==
    << "ffmpeg", "-i", "input_path",
       "-c:v", FormatSettings[fmt].codec,
       "-c:a", FormatSettings[fmt].audio,
       "-y" >>
    \o (IF fmt = "webm" THEN << "-b:v", "0", "-crf", "30" >> ELSE << >>)
    \o << "output_path" >>

\* The ways subprocess.run ends inside convert: the encoder's exit, the
\* timeout, or an exception when the encoder cannot be started.
RunOutcomes ==
    { oc \in ConvertOutcomes : oc.kind # "fault" }
    \cup [kind : {"launch"}, msg : LaunchMsgs]

\* C14 mutant: convert builds a command for whatever format it is given.
convert_any_format(output_format, oc) ==
    [ret |-> << uspekh(oc.kind), oc.msg >>, run |-> << "ffmpeg" >>]

\* VideoConverter.convert: the pair it returns and the command it handed to
\* subprocess.run (none when it returned before).
convert(output_format, oc) ==
    IF output_format \notin OUTPUT_FORMATS
    THEN [ret |-> << FALSE, UnsupportedMsg >>, run |-> << >>]
    ELSE [ret |-> << uspekh(oc.kind), oc.msg >>, run |-> komanda(output_format)]

\* A call of VideoConverter.convert.
CallConvert ==
    /\ \E f \in FormatIds, oc \in RunOutcomes :
        resp' = [op |-> "convert", fmt |-> f, oc |-> oc,
                 ret |-> convert(f, oc).ret, run |-> convert(f, oc).run]
    /\ UNCHANGED << tasks, status, error, inFile, outFile, minted, rn, rq, conv >>

\* The characters and the longest string _parse_fps is called with.
FpsChars == { "0", "1", "3", "/", "x" }
FpsStrings == UNION { [1..n -> FpsChars] : n \in 0..MaxFpsLen }

\* s.split('/')
RECURSIVE SplitSlash(_)
SplitSlash(s) ==
    IF ~Contains(s, "/") THEN << s >>
    ELSE LET i == CHOOSE k \in 1..Len(s) : s[k] = "/" /\ \A j \in 1..(k-1) : s[j] # "/"
         IN << SubSeq(s, 1, i - 1) >> \o SplitSlash(SubSeq(s, i + 1, Len(s)))

\* The value of a decimal digit.
DigitValue(c) == CHOOSE v \in 0..9 : << "0","1","2","3","4","5","6","7","8","9" >>[v + 1] = c

\* The number a string of decimal digits writes.
RECURSIVE DigitsValue(_)
DigitsValue(s) ==
    IF s = << >> THEN 0
    ELSE 10 * DigitsValue(SubSeq(s, 1, Len(s) - 1)) + DigitValue(s[Len(s)])

\* float(s) on the model's strings: the number written by a non-empty string
\* of digits, a ValueError (None here) for every other string.
float(s) ==
    IF s # << >> /\ \A i \in 1..Len(s) : s[i] \in Digits
    THEN Some(DigitsValue(s))
    ELSE None

RECURSIVE Gcd(_, _)
Gcd(a, b) == IF b = 0 THEN a ELSE Gcd(b, a % b)

\* num / den as a fraction in lowest terms (den # 0).
Quotient(num, den) == [n |-> num \div Gcd(num, den), d |-> den \div Gcd(num, den)]

\* VideoConverter._parse_fps: the number returned, None where the bare
\* except returns None (a string that float rejects, or one that does not
\* split in two).
parse_fps(fps_str) ==
    IF Contains(fps_str, "/")
    THEN LET parts == SplitSlash(fps_str) IN
         IF Len(parts) # 2 \/ float(parts[1]) = None \/ float(parts[2]) = None
         THEN None
         ELSE IF float(parts[2])[1] # 0
              THEN Some(Quotient(float(parts[1])[1], float(parts[2])[1]))
              ELSE Some(Quotient(0, 1))
    ELSE IF float(fps_str) = None THEN None
         ELSE Some(Quotient(float(fps_str)[1], 1))

\* A call of VideoConverter._parse_fps.
CallParseFps ==
    /\ \E s \in FpsStrings : resp' = [op |-> "_parse_fps", arg |-> s, ret |-> parse_fps(s)]
    /\ UNCHANGED << tasks, status, error, inFile, outFile, minted, rn, rq, conv >>

\* ================================================================= claims
Terminal == {"completed", "error"}

\* The runner of token t takes a step.
RunnerStep(t) == rn'[t] # rn[t]

\* ---- C1
\* C1: once the record of a token is `completed` or `error`, no step of any
\* operation changes that state again.
C1_TerminalStateIsFinal ==
    [][\A t \in Tokens : status[t] \in Terminal => status'[t] = status[t]]_vars

\* C1 witness: a job in a terminal state whose runner has ended is answered a
\* result request, while the other job is in a terminal state too.
C1_Witness ==
    /\ resp.op = "result"
    /\ resp.tok \in Tokens
    /\ \A t \in Tokens : status[t] \in Terminal /\ rn[t].pc = "done"

\* ---- C2
\* C2: in every reachable state, every record in the registry has a non-empty
\* error field if and only if its state is `error`.
C2_ErrorFieldIffErrorState ==
    \A t \in tasks : Truthy(error[t]) <=> status[t] = "error"

\* ---- C3
\* C3: a record becomes `completed` only by the runner step that follows a
\* check which found the output file, and that check is only made after the
\* encoder call returned success.
C3_CompletedOnlyAfterSuccessAndFile ==
    [][\A t \in Tokens :
        /\ (status'[t] = "completed" /\ status[t] # "completed") => rn[t].pc = "ok"
        /\ (rn'[t].pc = "ok" /\ rn[t].pc # "ok") => rn[t].pc = "check" /\ outFile[t]
        /\ (rn'[t].pc = "check" /\ rn[t].pc # "check")
               => conv'.t = t /\ conv'.kind = "exit0"]_vars

\* C3 witness: a job is `completed` while the other job's encoder call
\* returned success and left no file.
C3_Witness ==
    \E t, u \in Tokens :
        /\ status[t] = "completed"
        /\ rn[u].pc = "check"
        /\ ~outFile[u]

\* ---- C4
\* A returned encoder call that is one of the failures of the claim.
FailedRun(c) == c.kind \in {"nonzero", "launch", "timeout", "fault"}

\* C4: when the runner finds its record, a failed, unlaunched, timed-out or
\* faulted encoder call, and a success without an output file, lead the
\* runner to mark_error and nowhere else; mark_error sets the state `error`;
\* and a runner that has ended leaves a record it found in a terminal state.
C4_FailuresEndInError ==
    [][\A t \in Tokens :
        /\ (conv'.t = t /\ conv'.found /\ FailedRun(conv')) => rn'[t].pc = "err1"
        /\ (rn[t].pc = "check" /\ RunnerStep(t) /\ ~outFile[t]) => rn'[t].pc = "err1"
        /\ (rn[t].pc = "err1" /\ RunnerStep(t))
               => rn'[t].pc = "err2" /\ status'[t] = "error"
        /\ (rn[t].pc = "err2" /\ RunnerStep(t))
               => rn'[t].pc = "done" /\ status'[t] = "error"
        /\ (rn'[t].pc = "done" /\ t \in tasks') => status'[t] \in Terminal]_vars

\* C4 witness: the runner of a job whose encoder timed out has ended and the
\* record, still in the registry, is in state `error`.
C4_Witness ==
    \E t \in tasks :
        /\ rn[t].pc = "done"
        /\ status[t] = "error"
        /\ error[t] = Some(TimeoutMsg)

\* ---- C5
\* The (state, error) pairs of a record that is not half-written.
WholePair(st, e) ==
    \/ st = "processing" /\ e = None
    \/ st = "completed" /\ e = None
    \/ st = "error" /\ Truthy(e)

\* C5: every answer of a status poll that found the record carries the
\* pre-terminal pair or a complete terminal pair, never a torn one.
C5_StatusPairIsNeverTorn ==
    (resp.op = "status" /\ resp.out = "ok") => WholePair(resp.a, resp.e)

\* ---- C6
\* C6: a status poll ends as `not_found` or with a (state, error) answer whose
\* state is processing, completed or error; it never ends in a fault.
C6_StatusEndsInOneOfTwoOutcomes ==
    resp.op = "status" =>
        \/ resp.out = "not_found"
        \/ resp.out = "ok" /\ resp.a \in {"processing", "completed", "error"}

\* ---- C7
\* C7: when a cleanup has answered success, neither the input nor the output
\* file of its token exists and the token is not in the registry.
C7_SuccessfulCleanupLeavesNothing ==
    (resp.op = "cleanup" /\ resp.out = "success") =>
        /\ ~inFile[resp.tok]
        /\ ~outFile[resp.tok]
        /\ resp.tok \notin tasks

\* ---- C8
\* C8: a cleanup ends in success or in `not_found`; the one other end is the
\* operating system refusing to remove a file that exists. It never ends in
\* an error for a file or a record another cleanup has removed already.
C8_CleanupIsIdempotent ==
    resp.op = "cleanup" =>
        \/ resp.out \in {"success", "not_found"}
        \/ resp.out = "error500" /\ resp.a = "OSError"

\* ---- C9
\* C9: when the runner ends its encoder call and finds no record, it ends at
\* once and changes no record and not the registry; and a token that has left
\* the registry (its runner was started, so its record had been created) never
\* comes back.
C9_RunnerOfDeletedJobDoesNothing ==
    [][\A t \in Tokens :
        /\ (conv'.t = t /\ ~conv'.found)
               => rn'[t].pc = "done" /\ UNCHANGED << tasks, status, error >>
        /\ (rn[t].pc # "none" /\ t \notin tasks) => t \notin tasks']_vars

\* C9 witness: the encoder call of a deleted job has returned success and
\* its runner has ended, while the other job is still in the registry.
C9_Witness ==
    /\ conv.kind = "exit0"
    /\ ~conv.found
    /\ conv.t \notin tasks
    /\ rn[conv.t].pc = "done"
    /\ tasks # {}

\* ---- C10
\* The uploads the claim says are rejected: no file, an empty name, a format
\* outside the catalog, a name without extension or with an extension that,
\* lower-cased, is outside the allow-list.
InvalidUpload(in) ==
    \/ ~in.hasFile
    \/ in.filename = <<>>
    \/ FormField(in.fmt) \notin {"mp4", "webm", "avi", "mkv"}
    \/ ~Contains(in.filename, ".")
    \/ Lower(RSplitDot(in.filename)[2]) \notin ALLOWED_EXTENSIONS

\* C10: an invalid upload is answered as rejected by a step that leaves the
\* registry, the records, the files and the runner threads as they were and
\* has run no probe; and every upload that goes on to store its file (the
\* one way to the probe, the record and the runner) holds a valid request.
\* An answer given after the file was stored carries no input (NoUpload).
C10_InvalidUploadChangesNothing ==
    [][/\ (resp'.op = "upload" /\ resp'.in # NoUpload /\ InvalidUpload(resp'.in))
              => /\ resp'.out = "rejected"
                 /\ resp'.info = None
                 /\ UNCHANGED << tasks, status, error, inFile, outFile, minted, rn >>
       /\ \A r \in Reqs :
              /\ (rq[r].pc = "idle" /\ rq'[r].op = "upload")
                     => rq'[r].pc = "u_probe" /\ ~InvalidUpload(rq'[r].in)
              /\ (resp'.r = r /\ resp'.op = "upload" /\ resp'.in = NoUpload)
                     => rq[r].pc \in {"u_start", "u_answer"}
              /\ (rq'[r].pc \in {"u_create", "u_start", "u_answer"} /\ rq'[r] # rq[r])
                     => rq[r].pc \in {"u_probe", "u_create", "u_start"}]_vars

\* C10 witness: an upload named with an extension outside the allow-list is
\* rejected while a job is being converted.
C10_Witness ==
    /\ resp.op = "upload"
    /\ resp.out = "rejected"
    /\ resp.a = BadExtMsg
    /\ \E t \in tasks : rn[t].pc = "run"

\* ---- C11
\* C11: the result page is rendered and the output file is sent only for a
\* job whose state is `completed`.
C11_OutputServedOnlyWhenCompleted ==
    (resp.out \in {"result_page", "sent"}) => status[resp.tok] = "completed"

\* ---- C12
\* The registry entry, the record and the files of token b stay as they are.
Untouched(b) ==
    /\ (b \in tasks') = (b \in tasks)
    /\ status'[b] = status[b]
    /\ error'[b] = error[b]
    /\ inFile'[b] = inFile[b]
    /\ outFile'[b] = outFile[b]
    /\ rn'[b] = rn[b]

\* The step belongs to token a: a step of its runner, of a request thread
\* serving it, a response about it, or any change to what belongs to it.
StepOfToken(a) ==
    \/ RunnerStep(a)
    \/ \E r \in Reqs : rq'[r] # rq[r] /\ (rq[r].tok = a \/ rq'[r].tok = a)
    \/ resp'.tok = a
    \/ ~Untouched(a)

\* C12: a step that belongs to one token leaves the registry entry, the
\* record and the files of every other token untouched; an upload makes a
\* token no job has and later adds the record of that token, which had none,
\* and of no other; and a status poll answers with the state and the error
\* field it read from the record of the token it was asked for.
C12_JobsDoNotInterfere ==
    [][/\ \A a, b \in Tokens : (a # b /\ StepOfToken(a)) => Untouched(b)
       /\ minted' # minted =>
              /\ minted' = minted + 1
              /\ minted' \notin tasks
              /\ \A r \in Reqs : rq[r].tok # minted'
       /\ \A t \in Tokens : (t \notin tasks /\ t \in tasks') =>
              /\ tasks' = tasks \cup {t}
              /\ status[t] = "none"
              /\ status'[t] = "processing"
              /\ error'[t] = None
       /\ \A r \in Reqs :
              /\ (rq[r].pc = "s_status" /\ rq'[r].pc = "s_error")
                     => rq'[r].tok = rq[r].tok /\ rq'[r].st = status[rq[r].tok]
              /\ (rq[r].pc = "s_error" /\ rq'[r].pc = "idle")
                     => /\ resp'.op = "status"
                        /\ resp'.tok = rq[r].tok
                        /\ resp'.a = rq[r].st
                        /\ resp'.e = error[rq[r].tok]]_vars

\* C12 witness: with two jobs in the registry, a status poll of the second is
\* answered while the runner of the first is half-way through mark_error.
C12_Witness ==
    /\ tasks = {1, 2}
    /\ rn[1].pc = "err2"
    /\ resp.op = "status"
    /\ resp.out = "ok"
    /\ resp.tok = 2

\* ---- C13
\* C13: for a record the runner finds, a timed-out encoder leads to
\* mark_error with the timeout message and a non-zero exit to mark_error
\* with another text, whatever the encoder's diagnostic was: that
\* diagnostic, or the generic message when the diagnostic is empty; and
\* mark_error ends with the state `error` and that text in the error field.
C13_TimeoutDiagnosticIsDistinct ==
    [][\A t \in Tokens :
        /\ (conv'.t = t /\ conv'.found /\ conv'.kind = "timeout")
               => rn'[t] = [pc |-> "err1", msg |-> TimeoutMsg]
        /\ (conv'.t = t /\ conv'.found /\ conv'.kind = "nonzero")
               => /\ rn'[t].pc = "err1"
                  /\ rn'[t].msg # TimeoutMsg
                  /\ rn'[t].msg = (IF conv'.msg = "" THEN UnknownMsg ELSE conv'.msg)
        /\ (rn[t].pc = "err1" /\ RunnerStep(t)) => rn'[t].msg = rn[t].msg
        /\ (rn[t].pc = "err2" /\ RunnerStep(t))
               => status'[t] = "error" /\ error'[t] = Some(rn[t].msg)]_vars

\* ---- C14
\* C14: each of mp4, webm, avi and mkv is in the catalog with an extension, a
\* video codec and an audio codec that are not empty; and convert called
\* with any other identifier returns failure and hands no command to
\* subprocess.run.
C14_CatalogFailsClosed ==
    /\ \A f \in {"mp4", "webm", "avi", "mkv"} :
        /\ f \in OUTPUT_FORMATS
        /\ f \in DOMAIN FormatSettings
        /\ FormatSettings[f].ext # ""
        /\ FormatSettings[f].codec # ""
        /\ FormatSettings[f].audio # ""
    /\ (resp.op = "convert" /\ resp.fmt \in {"mp4", "webm", "avi", "mkv"})
           => resp.run # << >> /\ resp.run[1] = "ffmpeg"
    /\ (resp.op = "convert" /\ resp.fmt \notin {"mp4", "webm", "avi", "mkv"})
           => resp.ret[1] = FALSE /\ resp.run = << >>

\* C14 witness: convert was called with an identifier that differs from a
\* catalog key only in case, while the encoder would have succeeded.
C14_Witness ==
    /\ resp.op = "convert"
    /\ resp.fmt = "MP4"
    /\ resp.oc.kind = "exit0"
    /\ resp.ret = << FALSE, UnsupportedMsg >>

\* ---- C15
\* The ways the probe ends without a MediaInfo.
FailedProbes == { "nonzero", "malformed", "timeout", "launch" }

\* C15: the probe step of an upload ends in one of the probe's outcomes and
\* changes nothing but the thread's locals; whatever way the probe ends other
\* than with output that parses, the upload has no MediaInfo, its next step
\* is taken whatever the other threads do and creates its record in state
\* `processing` with no error, and the step after that starts the runner.
\* After the start the request is answered with the token.
C15_ProbeFailureDoesNotBlockUpload ==
    [][\A r \in Reqs :
        /\ (rq[r].pc = "u_probe" /\ rq'[r] # rq[r])
               => /\ rq'[r].pc = "u_create"
                  /\ rq'[r].tok = rq[r].tok
                  /\ rq'[r].st \in ProbeOutcomes
                  /\ rq'[r].st \in FailedProbes => rq'[r].info = None
                  /\ resp' = NoResp
                  /\ UNCHANGED << tasks, status, error, inFile, outFile, minted, rn >>
        /\ (rq[r].pc = "u_create" /\ rq[r].st \in FailedProbes)
               => /\ rq[r].info = None
                  /\ ENABLED UploadCreate(r)
                  /\ rq'[r] # rq[r]
                         => /\ rq'[r] = [rq[r] EXCEPT !.pc = "u_start"]
                            /\ rq[r].tok \notin tasks
                            /\ rq[r].tok \in tasks'
                            /\ status'[rq[r].tok] = "processing"
                            /\ error'[rq[r].tok] = None
        /\ (rq[r].pc = "u_start" /\ rq[r].st \in FailedProbes)
               => /\ rn[rq[r].tok].pc = "none"
                  /\ ENABLED UploadStart(r)
                  /\ rq'[r] # rq[r]
                         => /\ rn'[rq[r].tok].pc = "start"
                            /\ rq'[r].pc = "u_answer"
                            /\ rq'[r].tok = rq[r].tok
                            /\ resp' = NoResp
        /\ (rq[r].pc = "u_answer" /\ rq'[r] # rq[r])
               => /\ resp'.op = "upload"
                  /\ resp'.out = "accepted"
                  /\ resp'.tok = rq[r].tok
                  /\ rn[rq[r].tok].pc # "none"]_vars

\* ---- C16
\* A string of the form num/den, both written in digits.
IsRational(s) ==
    /\ Len(SplitSlash(s)) = 2
    /\ float(SplitSlash(s)[1]) # None
    /\ float(SplitSlash(s)[2]) # None
Numerator(s) == float(SplitSlash(s)[1])[1]
Denominator(s) == float(SplitSlash(s)[2])[1]

\* C16: _parse_fps of num/den with den # 0 is the number num/den; of num/den
\* with den = 0 it is unknown (None); of a string that is neither num/den nor
\* a plain number it is unknown.
C16_ParseFpsOfRational ==
    resp.op = "_parse_fps" =>
        /\ (IsRational(resp.arg) /\ Denominator(resp.arg) # 0)
               => /\ resp.ret # None
                  /\ resp.ret[1].n * Denominator(resp.arg) = Numerator(resp.arg) * resp.ret[1].d
        /\ (IsRational(resp.arg) /\ Denominator(resp.arg) = 0) => resp.ret = None
        /\ (~IsRational(resp.arg) /\ float(resp.arg) = None) => resp.ret = None

\* ---- C17
\* C17: under fair scheduling of the upload threads and of the runners, every
\* record in state `processing` eventually is `completed` or `error`, or has
\* left the registry.
C17_ProcessingEnds ==
    \A t \in Tokens :
        (t \in tasks /\ status[t] = "processing")
            ~> (status[t] \in Terminal \/ t \notin tasks)

\* ---- C18
\* C18: when the runner of a token is started, the record of that token is in
\* the registry in state `processing`; a record leaves the registry only in
\* the last step of a cleanup of its token; and a runner that finds no record
\* is the runner of a token whose record was created and has been deleted.
C18_RecordExistsBeforeRunnerStarts ==
    [][\A t \in Tokens :
        /\ (rn[t].pc = "none" /\ rn'[t].pc # "none")
               => /\ rn'[t].pc = "start"
                  /\ t \in tasks
                  /\ status[t] = "processing"
                  /\ t <= minted
        /\ (t \in tasks /\ t \notin tasks')
               => /\ resp'.op = "cleanup"
                  /\ resp'.out = "success"
                  /\ resp'.tok = t
                  /\ rn[t].pc # "none"
        /\ (conv'.t = t /\ ~conv'.found) => (t <= minted /\ t \notin tasks)]_vars

\* C18 witness: a runner has just been started, its record is in the
\* registry in state `processing`, and the runner of the other job has found
\* no record after a cleanup.
C18_Witness ==
    \E t, u \in Tokens :
        /\ rn[t].pc = "start"
        /\ t \in tasks
        /\ status[t] = "processing"
        /\ u \notin tasks
        /\ rn[u].pc = "done"
        /\ status[u] = "processing"

\* ---- C19
\* C19: whenever a token has left the registry (by a successful cleanup, the
\* only way out) and its runner has ended, neither its input file nor its
\* output file exists.
C19_NoFileOutlivesItsJob ==
    \A t \in Tokens :
        (t <= minted /\ t \notin tasks /\ rn[t].pc = "done")
            => ~inFile[t] /\ ~outFile[t]

\* ---- C20
\* C20: when a cleanup ends in the filesystem-error outcome, the record of
\* its token is in the registry, and the step that answered changed neither
\* the registry nor any record.
C20_FailedCleanupKeepsRecord ==
    [][(resp'.op = "cleanup" /\ resp'.out = "error500"
            /\ resp'.a \in {"OSError", "FileNotFoundError"})
           => /\ resp'.tok \in tasks'
              /\ UNCHANGED << tasks, status, error >>]_vars

\* ---------------------------------------------------------- specification
Next ==
    \/ \E r \in Reqs : UploadReject(r)
    \/ \E r \in Reqs : UploadTooLarge(r)
    \/ \E r \in Reqs : UploadFault(r)
    \/ \E r \in Reqs : UploadSave(r)
    \/ \E r \in Reqs : UploadProbe(r)
    \/ \E r \in Reqs : UploadCreate(r)
    \/ \E r \in Reqs : UploadStart(r)
    \/ \E r \in Reqs : UploadStartFault(r)
    \/ \E r \in Reqs : UploadAnswer(r)
    \/ \E t \in Tokens : ConvertLaunch(t)
    \/ \E t \in Tokens : ConvertLaunchFail(t)
    \/ \E t \in Tokens : TranscoderWrite(t)
    \/ \E t \in Tokens : ConvertReturn(t)
    \/ \E t \in Tokens : RunnerCheck(t)
    \/ \E t \in Tokens : RunnerMarkCompleted(t)
    \/ \E t \in Tokens : RunnerMarkErrorStatus(t)
    \/ \E t \in Tokens : RunnerMarkErrorMessage(t)
    \/ \E r \in Reqs, t \in Tokens : StatusExists(r, t)
    \/ \E r \in Reqs : StatusGet(r)
    \/ \E r \in Reqs : StatusReadStatus(r)
    \/ \E r \in Reqs : StatusReadError(r)
    \/ \E r \in Reqs, t \in Tokens : ResultExists(r, t)
    \/ \E r \in Reqs : ResultGet(r)
    \/ \E r \in Reqs : ResultStatus1(r)
    \/ \E r \in Reqs : ResultError(r)
    \/ \E r \in Reqs : ResultStatus2(r)
    \/ \E r \in Reqs : ResultFile(r)
    \/ \E r \in Reqs, t \in Tokens : DownloadExists(r, t)
    \/ \E r \in Reqs : DownloadGet(r)
    \/ \E r \in Reqs : DownloadFile(r)
    \/ \E r \in Reqs : DownloadSend(r)
    \/ \E r \in Reqs, t \in Tokens : CleanupExists(r, t)
    \/ \E r \in Reqs : CleanupGet(r)
    \/ \E r \in Reqs : CleanupExistsInput(r)
    \/ \E r \in Reqs : CleanupRemoveInput(r)
    \/ \E r \in Reqs : CleanupExistsOutput(r)
    \/ \E r \in Reqs : CleanupRemoveOutput(r)
    \/ \E r \in Reqs : CleanupDeleteTest(r)
    \/ \E r \in Reqs : CleanupDelete(r)

Spec == Init /\ [][Next]_vars

\* The steps of the runner thread of token t (process_conversion and, inside
\* it, the return of subprocess.run, which its timeout bounds).
RunnerNext(t) ==
    \/ ConvertLaunch(t)
    \/ ConvertLaunchFail(t)
    \/ ConvertReturn(t)
    \/ RunnerCheck(t)
    \/ RunnerMarkCompleted(t)
    \/ RunnerMarkErrorStatus(t)
    \/ RunnerMarkErrorMessage(t)

\* The threads are scheduled fairly: a runner thread that can take a step
\* takes one, and so does a request thread that serves an upload.
FairSpec ==
    /\ Spec
    /\ \A t \in Tokens : WF_vars(RunnerNext(t))
    /\ \A r \in Reqs : WF_vars(UploadStep(r))

\* The specification of the direct calls.
CallNext ==
    \/ CallConvert
    \/ CallParseFps

CallSpec == Init /\ [][CallNext]_vars

====
